---- MODULE Spec2Model ----
(***************************************************************************)
(* Inventory tracker back end: the item routes (routes/items.js) and the   *)
(* Inventory model (models/Inventory.js) over a MongoDB collection.        *)
(*                                                                         *)
(* Every request handler is an async function; it is modelled as one       *)
(* action per stretch of code between two awaited store operations, so     *)
(* that concurrent requests interleave exactly at the awaits.  Strings on  *)
(* which the code computes (identifiers, warehouse codes) are sequences of *)
(* one-character strings.                                                  *)
(***************************************************************************)
EXTENDS Integers, Sequences, FiniteSets, Bags, TLC

\* ---------------------------------------------------------------- bounds
\* the documents constructed in a behaviour, the requests in flight at a time
MaxItems == 2
MaxReq == 2
\* the numbers the identifier formatter is called with
MaxSeq == 1200
\* the milliseconds the clock advances in a behaviour
MaxClock == 2

\* ------------------------------------------------------- program constants
PadWidth == 3
SliceWidth == 6
MaxNameLen == 100
MaxWarehouseLen == 20
MinCost == 0
MinFloat == 0
MaxCost == 1000000

\* ------------------------------------------------------------------ state
\* items       the inventories collection, _id |-> document
\* reqs        the requests in flight, each suspended at an await: a bag, as
\*             two requests may hold the same values
\* now         Date.now()
\* nextId      the _id of the next document constructed
\* last        the response not yet delivered to its client
\* created     per user, the number of items the user has created so far
\* assigned    per user, the inventoryId of every item the user has created
\* seq         the counters collection of the Counter model, per user
\* fmt         the last call of the identifier formatter: its number and the
\*             string it rendered
VARIABLES items, reqs, now, nextId, last, created, assigned, seq, fmt

vars == <<items, reqs, now, nextId, last, created, assigned, seq, fmt>>

\* ---------------------------------------------------------------- strings
DigitChars == <<"0", "1", "2", "3", "4", "5", "6", "7", "8", "9">>
UpperChars == <<"A", "B", "C", "D", "E", "F", "G", "H", "I", "J", "K", "L", "M",
                "N", "O", "P", "Q", "R", "S", "T", "U", "V", "W", "X", "Y", "Z">>
LowerChars == <<"a", "b", "c", "d", "e", "f", "g", "h", "i", "j", "k", "l", "m",
                "n", "o", "p", "q", "r", "s", "t", "u", "v", "w", "x", "y", "z">>

Range(s) == {s[i] : i \in DOMAIN s}

IndexOf(c, s) == CHOOSE i \in DOMAIN s : s[i] = c

IsDigit(c) == c \in Range(DigitChars)

DigitVal(c) == IndexOf(c, DigitChars) - 1

\* UTF-16 code unit of a character, the order MongoDB's binary string
\* comparison and JavaScript's use
CharCode(c) ==
    IF c \in Range(DigitChars) THEN 47 + IndexOf(c, DigitChars)
    ELSE IF c \in Range(UpperChars) THEN 64 + IndexOf(c, UpperChars)
    ELSE IF c \in Range(LowerChars) THEN 96 + IndexOf(c, LowerChars)
    ELSE IF c = "-" THEN 45
    ELSE 32

\* String.prototype.toUpperCase
UpperChar(c) == IF c \in Range(LowerChars) THEN UpperChars[IndexOf(c, LowerChars)] ELSE c

\* toUpperCase that leaves the letters as they are
toUpperCaseIdentity(s) == s

toUpperCase(s) == [i \in DOMAIN s |-> UpperChar(s[i])]

\* String.prototype.trim
RECURSIVE trimStart(_)
trimStart(s) == IF s # <<>> /\ Head(s) = " " THEN trimStart(Tail(s)) ELSE s

RECURSIVE trimEnd(_)
trimEnd(s) == IF s # <<>> /\ s[Len(s)] = " " THEN trimEnd(SubSeq(s, 1, Len(s) - 1)) ELSE s

trim(s) == trimEnd(trimStart(s))

\* Number.prototype.toString for a non-negative integer
RECURSIVE toString(_)
toString(n) == IF n < 10 THEN <<DigitChars[n + 1]>>
               ELSE toString(n \div 10) \o <<DigitChars[(n % 10) + 1]>>

\* String.prototype.padStart(width, c)
RECURSIVE padStart(_, _, _)
padStart(s, width, c) == IF Len(s) >= width THEN s ELSE padStart(<<c>> \o s, width, c)

\* String.prototype.slice(-k)
sliceLast(s, k) == IF Len(s) <= k THEN s ELSE SubSeq(s, Len(s) - k + 1, Len(s))

\* parseInt(digits, 10) of a non-empty run of decimal digits
RECURSIVE parseInt(_)
parseInt(s) == IF s = <<>> THEN 0
               ELSE 10 * parseInt(SubSeq(s, 1, Len(s) - 1)) + DigitVal(s[Len(s)])

\* binary (code unit) order on strings: a < b
RECURSIVE StrLess(_, _)
StrLess(a, b) ==
    IF b = <<>> THEN FALSE
    ELSE IF a = <<>> THEN TRUE
    ELSE IF CharCode(Head(a)) # CharCode(Head(b)) THEN CharCode(Head(a)) < CharCode(Head(b))
    ELSE StrLess(Tail(a), Tail(b))

InvPrefix == <<"I", "N", "V", "-">>

\* s.match(/INV-(\d+)/): the positions where "INV-" and a digit follow
MatchStarts(s) ==
    {i \in 1..Len(s) : /\ i + Len(InvPrefix) <= Len(s)
                       /\ SubSeq(s, i, i + Len(InvPrefix) - 1) = InvPrefix
                       /\ IsDigit(s[i + Len(InvPrefix)])}

RECURSIVE DigitRun(_)
DigitRun(s) == IF s # <<>> /\ IsDigit(Head(s)) THEN <<Head(s)>> \o DigitRun(Tail(s)) ELSE <<>>

\* match[1] of the first match; <<>> when the regular expression does not match
MatchGroup(s) ==
    IF MatchStarts(s) = {} THEN <<>>
    ELSE LET i == CHOOSE k \in MatchStarts(s) : \A m \in MatchStarts(s) : k <= m
         IN  DigitRun(SubSeq(s, i + Len(InvPrefix), Len(s)))

\* FormatId cutting the number to the pad width
FormatIdFixedWidth(n) == InvPrefix \o sliceLast(padStart(toString(n), PadWidth, "0"), PadWidth)

\* `INV-${nextNumber.toString().padStart(3, '0')}`
FormatId(n) == InvPrefix \o padStart(toString(n), PadWidth, "0")

\* `INV-${Date.now().toString().slice(-6)}`: the clock of the model is the
\* low-order part of the millisecond clock, whose decimal form has 13 digits
TimestampId(t) == InvPrefix \o sliceLast(padStart(toString(t), 13, "0"), SliceWidth)

\* ------------------------------------------------------------ the schema
Users == {"u1", "u2"}

Accessories == <<"A", "c", "c", "e", "s", "s", "o", "r", "i", "e", "s">>
Electronics == <<"E", "l", "e", "c", "t", "r", "o", "n", "i", "c", "s">>
Furniture == <<"F", "u", "r", "n", "i", "t", "u", "r", "e">>
Printing == <<"P", "r", "i", "n", "t", "i", "n", "g">>
Audio == <<"A", "u", "d", "i", "o">>
Office == <<"O", "f", "f", "i", "c", "e">>
Storage == <<"S", "t", "o", "r", "a", "g", "e">>

CategoryEnum == {Accessories, Electronics, Furniture, Printing, Audio, Office, Storage}

InStock == <<"I", "n", " ", "s", "t", "o", "c", "k">>
OutOfStock == <<"O", "u", "t", " ", "o", "f", " ", "s", "t", "o", "c", "k">>

StockEnum == {InStock, OutOfStock}

Has(b, f) == f \in DOMAIN b

\* the paths of InventorySchema; a body key outside them is dropped (strict mode)
SchemaPaths == {"inventoryId", "productName", "category", "supplier", "stock",
                "costUnit", "warehouse", "lastUpdated", "userId"}

\* the setters of a schema path (trim, uppercase), applied on every assignment
CastPath(f, v) ==
    CASE f = "inventoryId" -> toUpperCase(trim(v))
      [] f = "productName" -> trim(v)
      [] f = "supplier" -> trim(v)
      [] f = "warehouse" -> toUpperCase(trim(v))
      [] OTHER -> v

\* the validators of a schema path on the value v; TRUE when v is rejected
PathInvalid(f, v) ==
    CASE f = "inventoryId" -> v = <<>>
      [] f = "productName" -> v = <<>> \/ Len(v) > MaxNameLen
      [] f = "category" -> v \notin CategoryEnum
      [] f = "supplier" -> v = <<>> \/ Len(v) > MaxNameLen
      [] f = "stock" -> v \notin StockEnum
      [] f = "costUnit" -> v < MinCost \/ v > MaxCost
      [] f = "warehouse" -> v = <<>> \/ Len(v) > MaxWarehouseLen
      [] f = "userId" -> v \notin Users
      [] OTHER -> FALSE

\* the schema paths of the document or update d that fail validation
ValidationErrors(d) == {f \in DOMAIN d \cap SchemaPaths : PathInvalid(f, d[f])}

\* the two unique indexes: the field-level one on inventoryId alone and the
\* compound one on (userId, inventoryId).  TRUE when storing doc under _id
\* id is rejected with a duplicate key error
InventoryIdTaken(store, id, doc) ==
    \E j \in DOMAIN store : j # id /\ store[j].inventoryId = doc.inventoryId

UserInventoryIdTaken(store, id, doc) ==
    \E j \in DOMAIN store : /\ j # id
                            /\ store[j].userId = doc.userId
                            /\ store[j].inventoryId = doc.inventoryId

\* DuplicateKey with no unique index built
DuplicateKeyNoIndex(store, id, doc) == FALSE

DuplicateKey(store, id, doc) ==
    InventoryIdTaken(store, id, doc) \/ UserInventoryIdTaken(store, id, doc)

\* Inventory.findOne({ userId }).sort({ inventoryId: -1 }): the _id of the
\* user's item whose inventoryId is greatest in string order, 0 if none
FindLast(store, userId) ==
    LET own == {i \in DOMAIN store : store[i].userId = userId}
    IN  IF own = {} THEN 0
        ELSE CHOOSE i \in own :
                 \A j \in own : j = i \/ StrLess(store[j].inventoryId, store[i].inventoryId)

\* nextNumber of generateInventoryId, from the item the query returned
NextNumber(store, userId) ==
    LET lastItem == FindLast(store, userId)
    IN  IF lastItem # 0 /\ store[lastItem].inventoryId # <<>>
           /\ MatchGroup(store[lastItem].inventoryId) # <<>>
        THEN parseInt(MatchGroup(store[lastItem].inventoryId)) + 1
        ELSE 1

\* generateInventoryId(userId); ok is whether the query succeeded, t the clock
generateInventoryId(store, userId, ok, t) ==
    IF ok THEN FormatId(NextNumber(store, userId)) ELSE TimestampId(t)

\* InventorySchema.pre('save'): allocates only for a document without an
\* inventoryId
preSave(store, doc, ok, t) ==
    IF doc.inventoryId = <<>>
    THEN [doc EXCEPT !.inventoryId = generateInventoryId(store, doc.userId, ok, t)]
    ELSE doc

\* CounterSeq incrementing on every save, validated or not
CounterSeqEverySave(counters, doc, ok) ==
    [counters EXCEPT ![doc.userId] = @ + 1]

\* the Counter variant of InventorySchema.pre('save'): the counters collection
\* after Counter.findByIdAndUpdate({ $inc: { seq: 1 } }, { upsert: true }), which
\* runs only for a document that passed validation and has no inventoryId
CounterSeq(counters, doc, ok) ==
    IF ValidationErrors(doc) = {} /\ doc.inventoryId = <<>> /\ ok
    THEN [counters EXCEPT ![doc.userId] = @ + 1]
    ELSE counters

\* --------------------------------------------------------- request bodies
Pen == <<"P", "e", "n">>
Acme == <<"A", "c", "m", "e">>
wh1 == <<"w", "h", "-", "1">>
Inv007 == <<"I", "N", "V", "-", "0", "0", "7">>

ValidBody == [productName |-> Pen, category |-> Office, supplier |-> Acme,
              costUnit |-> 10, warehouse |-> wh1]

\* the bodies of the create requests: a valid one and one the request
\* validators reject (no costUnit)
CreateBodies ==
    {ValidBody,
     [productName |-> Pen, category |-> Office, supplier |-> Acme, warehouse |-> wh1]}

\* the bodies of the update requests: one that carries an identifier and an
\* owner, and one the request validators reject
UpdateBodies ==
    {[inventoryId |-> Inv007, userId |-> "u2"],
     [costUnit |-> 0 - 1]}

wh2 == <<"w", "h", "-", "2">>

\* create bodies that differ in costUnit: within the range, zero, above the
\* schema's maximum, absent
CostBodies ==
    {ValidBody,
     [ValidBody EXCEPT !.costUnit = 0],
     [ValidBody EXCEPT !.costUnit = MaxCost + 1],
     [productName |-> Pen, category |-> Office, supplier |-> Acme, warehouse |-> wh1]}

\* create bodies that differ in stock and cost
StockBodies ==
    {ValidBody,
     [productName |-> Pen, category |-> Office, supplier |-> Acme, stock |-> OutOfStock,
      costUnit |-> 5, warehouse |-> wh1]}

\* update bodies for the clock: one that carries a lastUpdated of its own and
\* one the request validators reject
ClockBodies == {[lastUpdated |-> 0 - 7], [costUnit |-> 0 - 1]}

\* an update body that carries a warehouse code in lower case
WarehouseBodies == {[warehouse |-> wh2]}

\* the checks of express-validator: not().isEmpty() on the text fields and
\* isFloat({ min: 0 }) on costUnit; optional skips a field that is absent
RequestErrors(body, optional) ==
    {f \in {"productName", "category", "supplier", "warehouse"} :
        IF Has(body, f) THEN body[f] = <<>> ELSE ~optional}
    \cup {f \in {"costUnit"} :
        IF Has(body, f) THEN body[f] < MinFloat ELSE ~optional}

\* new Inventory({...}) of router.post: the document, its setters applied.
\* costUnit is a number in every body of the model, which parseFloat returns
\* as it is
NewInventory(inventoryId, body, userId, t) ==
    [inventoryId |-> CastPath("inventoryId", inventoryId),
     productName |-> CastPath("productName", body.productName),
     category |-> body.category,
     supplier |-> CastPath("supplier", body.supplier),
     stock |-> IF Has(body, "stock") /\ body.stock # <<>> THEN body.stock ELSE InStock,
     costUnit |-> body.costUnit,
     warehouse |-> CastPath("warehouse", toUpperCase(body.warehouse)),
     lastUpdated |-> t,
     userId |-> userId]

\* updateData of router.put: the body with warehouse uppercased, costUnit
\* parsed and lastUpdated overwritten
UpdateData(body, t) ==
    [f \in DOMAIN body \cup {"lastUpdated"} |->
        IF f = "lastUpdated" THEN t
        ELSE IF f = "warehouse" /\ body[f] # <<>> THEN toUpperCase(body[f])
        ELSE body[f]]

\* the $set of findByIdAndUpdate as the store receives it: the schema paths of
\* updateData, each through its setter
CastUpdate(updateData) ==
    [f \in DOMAIN updateData \cap SchemaPaths |-> CastPath(f, updateData[f])]

\* the document after { $set: update }
ApplySet(doc, update) ==
    [f \in DOMAIN doc |-> IF f \in DOMAIN update THEN update[f] ELSE doc[f]]

\* ---------------------------------------------------------------- requests
Ids == 1..MaxItems

NoResponse == [op |-> "none", caller |-> "none", status |-> 0,
               error |-> "none", data |-> <<>>, owner |-> "none", fallback |-> FALSE]

\* the response res.status(status).json(...) of a request, with the owner the
\* item had when the request arrived ("none" if it did not exist)
Response(op, caller, status, error, data, owner) ==
    [op |-> op, caller |-> caller, status |-> status,
     error |-> error, data |-> data, owner |-> owner, fallback |-> FALSE]

\* the response of a create request, with whether its identifier came from
\* the timestamp fallback
PostResponse(caller, status, error, data, fallback) ==
    [Response("post", caller, status, error, data, "none") EXCEPT !.fallback = fallback]

\* no call of the formatter yet
NoFormat == [n |-> 0, out |-> <<>>]

OwnerOf(store, id) == IF id \in DOMAIN store THEN store[id].userId ELSE "none"

InFlight == BagToSet(reqs)

\* the create requests in flight: each will construct one document
PostsInFlight ==
    BagCardinality([q \in {x \in InFlight : x.op = "post"} |-> reqs[q]])

Suspend(q) == reqs (+) SetToBag({q})

Resume(q) == reqs (-) SetToBag({q})

\* a handler is entered when the last response is out and a connection is free
Accepting == last = NoResponse /\ BagCardinality(reqs) < MaxReq

Init ==
    /\ items = <<>>
    /\ reqs = EmptyBag
    /\ now = 0
    /\ nextId = 1
    /\ last = NoResponse
    /\ created = [u \in Users |-> 0]
    /\ assigned = [u \in Users |-> {}]
    /\ seq = [u \in Users |-> 0]
    /\ fmt = NoFormat

\* the response reaches its client
Deliver ==
    /\ last # NoResponse
    /\ last' = NoResponse
    /\ UNCHANGED <<items, reqs, now, nextId, created, assigned, seq, fmt>>

\* ------------------------------------------------------------ POST /items
\* the request validators, then generateInventoryId up to its return
PostItem(caller, body, ok) ==
    /\ Accepting
    /\ IF RequestErrors(body, FALSE) # {}
       THEN /\ last' = PostResponse(caller, 400, "RequestValidation", <<>>, FALSE)
            /\ UNCHANGED reqs
       ELSE /\ nextId + PostsInFlight <= MaxItems
            /\ reqs' = Suspend([pc |-> "save", op |-> "post", caller |-> caller,
                                    body |-> body,
                                    inventoryId |-> generateInventoryId(items, caller, ok, now),
                                    fallback |-> ~ok])
            /\ UNCHANGED last
    /\ UNCHANGED <<items, now, nextId, created, assigned, seq, fmt>>

\* new Inventory(...) and newItem.save(): validation, the pre-save hook, the
\* insert under the unique indexes
PostItemSave(q, hookOk, ok) ==
    /\ last = NoResponse
    /\ q.pc = "save"
    /\ LET newItem == NewInventory(q.inventoryId, q.body, q.caller, now)
       IN  /\ reqs' = Resume(q)
           /\ nextId' = nextId + 1
           /\ IF ValidationErrors(newItem) # {}
              THEN /\ last' = PostResponse(q.caller, 400, "ValidationError", <<>>,
                                           q.fallback)
                   /\ UNCHANGED <<items, created, assigned>>
              ELSE LET doc == preSave(items, newItem, hookOk, now)
                   IN  IF ~ok
                       THEN /\ last' = PostResponse(q.caller, 500, "StoreError", <<>>,
                                                    q.fallback)
                            /\ UNCHANGED <<items, created, assigned>>
                       ELSE IF DuplicateKey(items, nextId, doc)
                       THEN /\ last' = PostResponse(q.caller, 500, "DuplicateKey", <<>>,
                                                    q.fallback)
                            /\ UNCHANGED <<items, created, assigned>>
                       ELSE /\ items' = (nextId :> doc) @@ items
                            /\ created' = [created EXCEPT ![q.caller] = @ + 1]
                            /\ assigned' = [assigned EXCEPT ![q.caller] =
                                                @ \cup {doc.inventoryId}]
                            /\ last' = PostResponse(q.caller, 201, "none", <<doc>>,
                                                    q.fallback)
           /\ seq' = CounterSeq(seq, newItem, hookOk)
    /\ UNCHANGED <<now, fmt>>

\* ---------------------------------------------------------- PUT /items/:id
\* the outcome of findById and the ownership check of router.put and
\* router.delete: the status answered at once, 0 to go on
\* LookupStatus without the ownership check
LookupStatusNoOwnerCheck(store, caller, id, ok) ==
    IF ~ok THEN 500
    ELSE IF id \notin DOMAIN store THEN 404
    ELSE 0

LookupStatus(store, caller, id, ok) ==
    IF ~ok THEN 500
    ELSE IF id \notin DOMAIN store THEN 404
    ELSE IF store[id].userId # caller THEN 403
    ELSE 0

StatusError(status) ==
    CASE status = 500 -> "StoreError"
      [] status = 404 -> "NotFound"
      [] status = 403 -> "Forbidden"
      [] OTHER -> "none"

\* the request validators, findById, the ownership check, updateData
PutItem(caller, id, body, ok) ==
    /\ Accepting
    /\ IF RequestErrors(body, TRUE) # {}
       THEN /\ last' = Response("put", caller, 400, "RequestValidation", <<>>,
                                OwnerOf(items, id))
            /\ UNCHANGED reqs
       ELSE LET status == LookupStatus(items, caller, id, ok)
            IN  IF status # 0
                THEN /\ last' = Response("put", caller, status, StatusError(status), <<>>,
                                         OwnerOf(items, id))
                     /\ UNCHANGED reqs
                ELSE /\ reqs' = Suspend([pc |-> "update", op |-> "put", caller |-> caller,
                                         id |-> id, owner |-> OwnerOf(items, id),
                                         updateData |-> UpdateData(body, now)])
                     /\ UNCHANGED last
    /\ UNCHANGED <<items, now, nextId, created, assigned, seq, fmt>>

\* Inventory.findByIdAndUpdate(id, { $set: updateData }, { new: true,
\* runValidators: true }) and the response
PutItemUpdate(q, ok) ==
    /\ last = NoResponse
    /\ q.pc = "update"
    /\ LET update == CastUpdate(q.updateData)
       IN  /\ reqs' = Resume(q)
           /\ IF ValidationErrors(update) # {}
              THEN /\ last' = Response("put", q.caller, 400, "ValidationError", <<>>, q.owner)
                   /\ UNCHANGED items
              ELSE IF ~ok
                   THEN /\ last' = Response("put", q.caller, 500, "StoreError", <<>>, q.owner)
                        /\ UNCHANGED items
                   ELSE IF q.id \notin DOMAIN items
                   THEN /\ last' = Response("put", q.caller, 200, "none", <<>>, q.owner)
                        /\ UNCHANGED items
                   ELSE IF DuplicateKey(items, q.id, ApplySet(items[q.id], update))
                   THEN /\ last' = Response("put", q.caller, 500, "DuplicateKey", <<>>,
                                            q.owner)
                        /\ UNCHANGED items
                   ELSE /\ items' = [items EXCEPT ![q.id] = ApplySet(items[q.id], update)]
                        /\ last' = Response("put", q.caller, 200, "none",
                                            <<ApplySet(items[q.id], update)>>, q.owner)
    /\ UNCHANGED <<now, nextId, created, assigned, seq, fmt>>

\* ------------------------------------------------------- DELETE /items/:id
\* findById and the ownership check
DeleteItem(caller, id, ok) ==
    /\ Accepting
    /\ LET status == LookupStatus(items, caller, id, ok)
       IN  IF status # 0
           THEN /\ last' = Response("delete", caller, status, StatusError(status), <<>>,
                                    OwnerOf(items, id))
                /\ UNCHANGED reqs
           ELSE /\ reqs' = Suspend([pc |-> "remove", op |-> "delete", caller |-> caller,
                                    id |-> id, owner |-> OwnerOf(items, id)])
                /\ UNCHANGED last
    /\ UNCHANGED <<items, now, nextId, created, assigned, seq, fmt>>

\* DeleteItemRemove answering without removing the document
DeleteItemRemoveKeeps(q, ok) ==
    /\ last = NoResponse
    /\ q.pc = "remove"
    /\ reqs' = Resume(q)
    /\ last' = Response("delete", q.caller, IF ok THEN 200 ELSE 500,
                        IF ok THEN "none" ELSE "StoreError", <<>>, q.owner)
    /\ UNCHANGED <<items, now, nextId, created, assigned, seq, fmt>>

\* Inventory.findByIdAndDelete(id) and the response
DeleteItemRemove(q, ok) ==
    /\ last = NoResponse
    /\ q.pc = "remove"
    /\ reqs' = Resume(q)
    /\ IF ~ok
       THEN /\ last' = Response("delete", q.caller, 500, "StoreError", <<>>, q.owner)
            /\ UNCHANGED items
       ELSE /\ items' = [i \in DOMAIN items \ {q.id} |-> items[i]]
            /\ last' = Response("delete", q.caller, 200, "none", <<>>, q.owner)
    /\ UNCHANGED <<now, nextId, created, assigned, seq, fmt>>

\* ---------------------------------------------------------- GET /items/:id
\* Inventory.findOne({ _id, userId }): the documents the filter selects
FindOwned(store, caller, id) ==
    IF id \in DOMAIN store /\ store[id].userId = caller THEN <<store[id]>> ELSE <<>>

\* GetItemStatus with findById and an ownership check, as router.put has
GetItemStatusForbidden(store, caller, id, ok) ==
    IF ~ok THEN 500
    ELSE IF id \notin DOMAIN store THEN 404
    ELSE IF store[id].userId # caller THEN 403
    ELSE 200

\* the status router.get('/:id') answers
GetItemStatus(store, caller, id, ok) ==
    IF ~ok THEN 500
    ELSE IF FindOwned(store, caller, id) = <<>> THEN 404
    ELSE 200

GetItem(caller, id, ok) ==
    /\ last = NoResponse
    /\ LET status == GetItemStatus(items, caller, id, ok)
       IN  last' = Response("get", caller, status,
                            IF status = 200 THEN "none" ELSE StatusError(status),
                            IF status = 200 THEN FindOwned(items, caller, id) ELSE <<>>,
                            OwnerOf(items, id))
    /\ UNCHANGED <<items, reqs, now, nextId, created, assigned, seq, fmt>>

\* a query filter: the documents whose fields equal the filter's
Matches(doc, filter) == \A f \in DOMAIN filter : doc[f] = filter[f]

\* -------------------------------------------- GET /items, GET /items/search
\* a document as a response carries it, with its _id
WithId(store, i) ==
    [f \in DOMAIN store[i] \cup {"_id"} |-> IF f = "_id" THEN i ELSE store[i][f]]

\* .sort({ lastUpdated: -1 }): the orders of the documents ids by descending
\* lastUpdated, in any order among equals
SortByLastUpdated(store, ids) ==
    {s \in [1..Cardinality(ids) -> ids] :
        /\ \A i \in ids : \E k \in DOMAIN s : s[k] = i
        /\ \A j, k \in DOMAIN s : j < k => store[s[j]].lastUpdated >= store[s[k]].lastUpdated}

\* Inventory.find({ userId }).sort({ lastUpdated: -1 }) and the response
ListItems(caller, ok) ==
    /\ last = NoResponse
    /\ IF ~ok
       THEN last' = Response("list", caller, 500, "StoreError", <<>>, "none")
       ELSE \E s \in SortByLastUpdated(items, {i \in DOMAIN items : items[i].userId = caller}) :
                last' = Response("list", caller, 200, "none",
                                 [k \in DOMAIN s |-> WithId(items, s[k])], "none")
    /\ UNCHANGED <<items, reqs, now, nextId, created, assigned, seq, fmt>>

\* the queries of the search requests: none, blank, a word in lower case, and
\* two that hold a character the regular expression syntax gives a meaning
Queries == {<<>>, <<" ">>, <<"p", "e", "n">>, <<".">>, <<"(">>}

\* a pattern the regular expression compiler rejects: a group left open
RegexInvalid(pattern) ==
    Cardinality({k \in DOMAIN pattern : pattern[k] = "("})
        # Cardinality({k \in DOMAIN pattern : pattern[k] = ")"})

\* { $regex: pattern, $options: 'i' } on text, for a pattern of literal
\* characters and ".", which stands for any character
RegexTest(pattern, text) ==
    \E o \in 0..(Len(text) - Len(pattern)) :
        \A k \in DOMAIN pattern :
            pattern[k] = "." \/ UpperChar(pattern[k]) = UpperChar(text[o + k])

\* the $or of the four $regex conditions
SearchMatches(doc, q) ==
    \E f \in {"productName", "category", "supplier", "inventoryId"} : RegexTest(q, doc[f])

\* router.get('/search'): the check of q, the find and the response; the
\* response is kept with the query it answers
SearchItems(caller, q, ok) ==
    /\ last = NoResponse
    /\ IF q = <<>> \/ trim(q) = <<>>
       THEN last' = Response("search", caller, 400, "QueryRequired", <<q, <<>>>>, "none")
       ELSE IF ~ok \/ RegexInvalid(q)
       THEN last' = Response("search", caller, 500, "StoreError", <<q, <<>>>>, "none")
       ELSE \E s \in SortByLastUpdated(items,
                        {i \in DOMAIN items : /\ items[i].userId = caller
                                              /\ SearchMatches(items[i], q)}) :
                last' = Response("search", caller, 200, "none",
                                 <<q, [k \in DOMAIN s |-> WithId(items, s[k])]>>, "none")
    /\ UNCHANGED <<items, reqs, now, nextId, created, assigned, seq, fmt>>

\* ------------------------------------------------- GET /items/stats/summary

\* Find over the stored items of every user
FindAnyUser(store, filter) ==
    {i \in DOMAIN store : Matches(store[i], [f \in DOMAIN filter \ {"userId"} |-> filter[f]])}

\* the _ids of the documents countDocuments(filter) counts and $match selects
Find(store, filter) == {i \in DOMAIN store : Matches(store[i], filter)}

countDocuments(store, filter) == Cardinality(Find(store, filter))

\* { $sum: '$costUnit' } over the documents of S
RECURSIVE SumCost(_, _)
SumCost(store, S) ==
    IF S = {} THEN 0
    ELSE LET i == CHOOSE x \in S : TRUE
         IN  store[i].costUnit + SumCost(store, S \ {i})

\* the $match, $group by null pipeline and totalValue[0].total, 0 for no group
TotalValue(store, filter) ==
    IF Find(store, filter) = {} THEN 0 ELSE SumCost(store, Find(store, filter))

\* the $match, $group by category pipeline: one group per category present
CategoryGroups(store, userId) ==
    {[_id |-> c,
      count |-> countDocuments(store, [userId |-> userId, category |-> c]),
      totalValue |-> SumCost(store, Find(store, [userId |-> userId, category |-> c]))] :
        c \in {store[i].category : i \in Find(store, [userId |-> userId])}}

\* { $sort: { count: -1 } }: the orders of the groups by descending count
SortByCount(groups) ==
    {s \in [1..Cardinality(groups) -> groups] :
        /\ \A g \in groups : \E k \in DOMAIN s : s[k] = g
        /\ \A j, k \in DOMAIN s : j < k => s[j].count >= s[k].count}

\* the documents of a user, by _id
OwnDocs(store, userId) == [i \in Find(store, [userId |-> userId]) |-> store[i]]

\* the first query, countDocuments({ userId }).  before holds the caller's
\* items as the first query saw them and quiet whether every later query saw
\* the same.  Summaries write nothing, so one in flight at a time meets every
\* interleaving with the handlers that write
GetStats(caller, ok) ==
    /\ Accepting
    /\ \A q \in InFlight : q.op # "stats"
    /\ IF ~ok
       THEN /\ last' = Response("stats", caller, 500, "StoreError", <<>>, "none")
            /\ UNCHANGED reqs
       ELSE /\ reqs' = Suspend([pc |-> "inStockItems", op |-> "stats", caller |-> caller,
                                totalItems |-> countDocuments(items, [userId |-> caller]),
                                inStockItems |-> 0, outOfStockItems |-> 0, totalValue |-> 0,
                                before |-> OwnDocs(items, caller),
                                quiet |-> TRUE])
            /\ UNCHANGED last
    /\ UNCHANGED <<items, now, nextId, created, assigned, seq, fmt>>

\* the later queries, one at a time, and the response after the last
StatsQuery(q, ok) ==
    /\ last = NoResponse
    /\ q.op = "stats"
    /\ LET inStock == [userId |-> q.caller, stock |-> InStock]
           outOfStock == [userId |-> q.caller, stock |-> OutOfStock]
           quiet == q.quiet /\ OwnDocs(items, q.caller) = q.before
       IN  IF ~ok
           THEN /\ last' = Response("stats", q.caller, 500, "StoreError", <<>>, "none")
                /\ reqs' = Resume(q)
           ELSE CASE q.pc = "inStockItems" ->
                       /\ reqs' = Resume(q) (+) SetToBag({
                                      [q EXCEPT !.pc = "outOfStockItems",
                                                !.inStockItems = countDocuments(items, inStock),
                                                !.quiet = quiet]})
                       /\ UNCHANGED last
                  [] q.pc = "outOfStockItems" ->
                       /\ reqs' = Resume(q) (+) SetToBag({
                                      [q EXCEPT !.pc = "totalValue",
                                                !.outOfStockItems =
                                                    countDocuments(items, outOfStock),
                                                !.quiet = quiet]})
                       /\ UNCHANGED last
                  [] q.pc = "totalValue" ->
                       /\ reqs' = Resume(q) (+) SetToBag({
                                      [q EXCEPT !.pc = "categoryStats",
                                                !.totalValue = TotalValue(items, inStock),
                                                !.quiet = quiet]})
                       /\ UNCHANGED last
                  [] q.pc = "categoryStats" ->
                       /\ reqs' = Resume(q)
                       /\ \E categoryStats \in SortByCount(CategoryGroups(items, q.caller)) :
                              last' = Response("stats", q.caller, 200, "none",
                                               <<[totalItems |-> q.totalItems,
                                                  inStockItems |-> q.inStockItems,
                                                  outOfStockItems |-> q.outOfStockItems,
                                                  totalValue |-> q.totalValue,
                                                  categoryStats |-> categoryStats,
                                                  quiet |-> quiet]>>, "none")
    /\ UNCHANGED <<items, now, nextId, created, assigned, seq, fmt>>

\* ---------------------------------------------------------- specification
\* a step of the server; oks are the outcomes of a store operation: TRUE, it
\* answers, FALSE, it throws
Step(oks) ==
    \/ Deliver
    \/ \E caller \in Users, body \in CreateBodies, ok \in oks : PostItem(caller, body, ok)
    \/ \E q \in InFlight, hookOk, ok \in oks : PostItemSave(q, hookOk, ok)
    \/ \E caller \in Users, id \in Ids, body \in UpdateBodies, ok \in oks :
           PutItem(caller, id, body, ok)
    \/ \E q \in InFlight, ok \in oks : PutItemUpdate(q, ok)
    \/ \E caller \in Users, id \in Ids, ok \in oks : DeleteItem(caller, id, ok)
    \/ \E q \in InFlight, ok \in oks : DeleteItemRemove(q, ok)
    \/ \E caller \in Users, id \in Ids, ok \in oks : GetItem(caller, id, ok)

\* the server over a store whose operations may fail
Next == Step(BOOLEAN)

Spec == Init /\ [][Next]_vars

\* the server over a store that answers every operation
NextUp == Step({TRUE})

SpecUp == Init /\ [][NextUp]_vars

\* creations and updates over the range of costUnit and warehouse values, the
\* store answering every operation
NextFields ==
    \/ Deliver
    \/ \E caller \in Users, body \in CostBodies : PostItem(caller, body, TRUE)
    \/ \E q \in InFlight : PostItemSave(q, TRUE, TRUE)
    \/ \E caller \in Users, id \in Ids, body \in WarehouseBodies :
           PutItem(caller, id, body, TRUE)
    \/ \E q \in InFlight : PutItemUpdate(q, TRUE)

SpecFields == Init /\ [][NextFields]_vars

\* every handler that reads or writes items, the store answering every
\* operation
NextRead ==
    \/ NextUp
    \/ \E caller \in Users : ListItems(caller, TRUE)
    \/ \E caller \in Users, q \in Queries : SearchItems(caller, q, TRUE)

SpecRead == Init /\ [][NextRead]_vars

\* summaries computed while items are created and deleted, the store
\* answering every operation
NextStats ==
    \/ Deliver
    \/ \E caller \in Users, body \in StockBodies : PostItem(caller, body, TRUE)
    \/ \E q \in InFlight : PostItemSave(q, TRUE, TRUE)
    \/ \E caller \in Users, id \in Ids : DeleteItem(caller, id, TRUE)
    \/ \E q \in InFlight : DeleteItemRemove(q, TRUE)
    \/ \E caller \in Users : GetStats(caller, TRUE)
    \/ \E q \in InFlight : StatsQuery(q, TRUE)

SpecStats == Init /\ [][NextStats]_vars

\* the last number whose digits fit the pad width: 999
LastPadded == 10^PadWidth - 1

\* the state of a store in which u1 has created 999 items, INV-001 to INV-999,
\* and deleted all of them but the last, which is kept under the _id -1
Init999 ==
    /\ items = ((0 - 1) :> NewInventory(FormatId(LastPadded), ValidBody, "u1", 0))
    /\ reqs = EmptyBag
    /\ now = 0
    /\ nextId = 1
    /\ last = NoResponse
    /\ created = [u \in Users |-> IF u = "u1" THEN LastPadded ELSE 0]
    /\ assigned = [u \in Users |->
                      IF u = "u1" THEN {FormatId(n) : n \in 1..LastPadded} ELSE {}]
    /\ seq = [u \in Users |-> 0]
    /\ fmt = NoFormat

Spec999 == Init999 /\ [][NextUp]_vars

\* Date.now() advances
Tick ==
    /\ now < MaxClock
    /\ now' = now + 1
    /\ UNCHANGED <<items, reqs, nextId, last, created, assigned, seq, fmt>>

\* creations and updates while the clock advances, the store answering every
\* operation
NextClock ==
    \/ Tick
    \/ Deliver
    \/ \E caller \in Users : PostItem(caller, ValidBody, TRUE)
    \/ \E q \in InFlight : PostItemSave(q, TRUE, TRUE)
    \/ \E caller \in Users, id \in Ids, body \in ClockBodies :
           PutItem(caller, id, body, TRUE)
    \/ \E q \in InFlight : PutItemUpdate(q, TRUE)

SpecClock == Init /\ [][NextClock]_vars

\* the identifier formatter on its own: a call with the number n
Format(n) ==
    /\ fmt' = [n |-> n, out |-> FormatId(n)]
    /\ UNCHANGED <<items, reqs, now, nextId, last, created, assigned, seq>>

NextFormat == \E n \in 1..MaxSeq : Format(n)

SpecFormat == Init /\ [][NextFormat]_vars

\* ------------------------------------------------------------- properties
\* the sequence number an identifier carries
SeqNo(inventoryId) == parseInt(MatchGroup(inventoryId))

PostsOf(caller) == {q \in InFlight : q.op = "post" /\ q.caller = caller}

\* the step resumes the suspended request q and runs it to its response
Completes(q) == q \in InFlight /\ reqs' = Resume(q)

\* C1: no two invocations of the identifier allocator for one owner return
\* the same displayId, whatever the interleaving of the owner's concurrent
\* create requests: the identifiers held by create requests in flight for one
\* owner are pairwise different.
C1_AllocatorDistinct ==
    \A u \in Users : \A p, q \in PostsOf(u) :
        /\ reqs[p] = 1
        /\ p # q => p.inventoryId # q.inventoryId

\* C2: displayId uniqueness is per owner: a valid create whose identifier is
\* held only by items of other owners is not rejected as a duplicate.
C2_PerOwnerUniqueness ==
    [][\A q \in InFlight :
          (/\ q.pc = "save"
           /\ Completes(q)
           /\ \E i \in DOMAIN items : items[i].inventoryId = q.inventoryId
           /\ \A i \in DOMAIN items :
                  items[i].inventoryId = q.inventoryId => items[i].userId # q.caller)
          => last'.error # "DuplicateKey"]_vars

\* C3: the allocator fails closed: a create request whose allocation query
\* failed does not succeed, so no item is stored under a timestamp-derived
\* displayId.
C3_AllocatorFailsClosed ==
    last.op = "post" /\ last.fallback => last.status # 201

\* C4: a sequence number once assigned to an item of an owner is never
\* assigned again to a later item of that owner, deletions included.
C4_NumberNeverReused ==
    [][\A i \in DOMAIN items' \ DOMAIN items :
          \A d \in assigned[items'[i].userId] :
              SeqNo(items'[i].inventoryId) # SeqNo(d)]_vars

\* C5: the k-th successful creation of an owner is assigned sequence number k.
C5_SequenceDense ==
    last.op = "post" /\ last.status = 201 =>
        SeqNo(last.data[1].inventoryId) = created[last.caller]

\* C6: no two stored items have the same (userId, inventoryId) pair.
C6_OwnerDisplayIdUnique ==
    \A i, j \in DOMAIN items :
        i # j => <<items[i].userId, items[i].inventoryId>>
                     # <<items[j].userId, items[j].inventoryId>>

\* C6 witness: an owner holds two items and the store has just rejected a
\* write for a duplicate key.
C6_Witness ==
    /\ last.error = "DuplicateKey"
    /\ \E i, j \in DOMAIN items : i # j /\ items[i].userId = items[j].userId

\* C7: a create request with valid fields is never rejected for a duplicate
\* key on its identifier.
C7_NoCreateCollision ==
    ~(last.op = "post" /\ last.error = "DuplicateKey")

\* C8: no step changes the displayId of a stored item: it is assigned at
\* creation and updates leave it alone, whatever their body carries.
C8_DisplayIdImmutable ==
    [][\A i \in DOMAIN items \cap DOMAIN items' :
          items'[i].inventoryId = items[i].inventoryId]_vars

\* the answer to an update or delete request of a caller who does not own the
\* item, the store having answered the lookup
NonOwnerAnswered ==
    last.op \in {"put", "delete"} /\ last.owner # last.caller /\ last.status # 500

C10_GetByIdOwnedOnly ==
    last.op = "get" =>
        /\ last.status # 403
        /\ last.status = 200 =>
               /\ last.owner = last.caller
               /\ last.data # <<>> /\ last.data[1].userId = last.caller
        /\ last.owner # last.caller /\ last.status # 500 =>
               last.status = 404 /\ last.error = "NotFound" /\ last.data = <<>>

\* C10 witness: a read of an existing item of another owner was answered
\* NotFound.
C10_Witness ==
    /\ last.op = "get" /\ last.status = 404
    /\ last.owner \in Users \ {last.caller}

\* C11: creation accepts costUnit only when 0 < costUnit <= 1,000,000: a
\* create request whose costUnit is zero is rejected and nothing is stored, so
\* every item a create request has stored has a cost above zero and at most
\* the maximum.
C11_CostAboveZero ==
    last.op = "post" /\ last.status = 201 =>
        /\ last.data[1].costUnit > 0
        /\ last.data[1].costUnit <= MaxCost

\* C12: a create request rejected for a validation error, by the request
\* validators or by the schema at save, stores nothing and consumes no
\* sequence number: the store and the counters are as before, and the
\* allocator returns for every owner the identifier it returned before.
C12_RejectedCreateConsumesNothing ==
    [][last'.op = "post" /\ last'.status = 400 =>
          /\ items' = items
          /\ seq' = seq
          /\ \A u \in Users :
                 generateInventoryId(items', u, TRUE, now')
                     = generateInventoryId(items, u, TRUE, now)]_vars

\* C12 witness: the schema has rejected, at save, a create request of an owner
\* who holds an item, and a request of that owner was rejected by the request
\* validators before.
C12_Witness ==
    /\ last.op = "post" /\ last.status = 400 /\ last.error = "ValidationError"
    /\ \E i \in DOMAIN items : items[i].userId = last.caller

\* C15: the warehouse code of every stored item is in upper case: creation and
\* update store no lower-case letter in it.
C15_WarehouseUpperCase ==
    \A i \in DOMAIN items :
        \A k \in DOMAIN items[i].warehouse :
            items[i].warehouse[k] \notin Range(LowerChars)

\* C15 witness: an item created with "wh-1" is stored with "WH-1" and an item
\* updated with "wh-2" is stored with "WH-2".
C15_Witness ==
    /\ \E i \in DOMAIN items : items[i].warehouse = <<"W", "H", "-", "1">>
    /\ \E i \in DOMAIN items : items[i].warehouse = <<"W", "H", "-", "2">>

\* the number of decimal digits of n
RECURSIVE NumDigits(_)
NumDigits(n) == IF n < 10 THEN 1 ELSE 1 + NumDigits(n \div 10)

\* C13: the formatter renders a positive integer n as "INV-" followed by the
\* decimal digits of n, padded with zeros on the left to a width of at least 3
\* and never truncated: 1 -> INV-001, 25 -> INV-025, 999 -> INV-999,
\* 1000 -> INV-1000.
C13_FormatPadsNeverTruncates ==
    fmt.n > 0 =>
        LET digits == SubSeq(fmt.out, Len(InvPrefix) + 1, Len(fmt.out))
        IN  /\ SubSeq(fmt.out, 1, Len(InvPrefix)) = InvPrefix
            /\ \A k \in DOMAIN digits : IsDigit(digits[k])
            /\ parseInt(digits) = fmt.n
            /\ Len(digits) = IF NumDigits(fmt.n) > PadWidth THEN NumDigits(fmt.n) ELSE PadWidth
            /\ fmt.n = 1 => fmt.out = <<"I", "N", "V", "-", "0", "0", "1">>
            /\ fmt.n = 25 => fmt.out = <<"I", "N", "V", "-", "0", "2", "5">>
            /\ fmt.n = 999 => fmt.out = <<"I", "N", "V", "-", "9", "9", "9">>
            /\ fmt.n = 1000 => fmt.out = <<"I", "N", "V", "-", "1", "0", "0", "0">>

\* C13 witness: the formatter was called with 1000 and rendered INV-1000.
C13_Witness ==
    fmt.n = 1000 /\ fmt.out = <<"I", "N", "V", "-", "1", "0", "0", "0">>

\* C14: with no request in flight, the counter of every owner equals the
\* number of items the owner has created: it is incremented once for every
\* successful creation and by nothing else.
C14_CounterCountsCreations ==
    reqs = EmptyBag => \A u \in Users : seq[u] = created[u]

\* the figures of a summary are those of the caller's items in the store
SummaryOf(data, store, caller) ==
    LET own == {i \in DOMAIN store : store[i].userId = caller}
        inStock == {i \in own : store[i].stock = InStock}
    IN  /\ data.totalItems = Cardinality(own)
        /\ data.inStockItems = Cardinality(inStock)
        /\ data.outOfStockItems = Cardinality(own \ inStock)
        /\ data.inStockItems + data.outOfStockItems = data.totalItems
        /\ data.totalValue = SumCost(store, inStock)

LiteralSubstring(q, text) ==
    \E o \in 0..(Len(text) - Len(q)) :
        \A k \in DOMAIN q : UpperChar(q[k]) = UpperChar(text[o + k])

\* C17: a search with a query that is empty or blank fails with 400 and
\* returns nothing; with any other query it returns exactly the caller's items
\* of which productName, category, supplier or inventoryId contains the query
\* as literal text, letter case aside.
C17_SearchLiteralSubstring ==
    last.op = "search" =>
        LET q == last.data[1]
            found == last.data[2]
        IN  IF q = <<>> \/ trim(q) = <<>>
            THEN last.status = 400 /\ found = <<>>
            ELSE /\ last.status = 200
                 /\ {found[k]._id : k \in DOMAIN found}
                        = {i \in DOMAIN items :
                              /\ items[i].userId = last.caller
                              /\ \E f \in {"productName", "category", "supplier",
                                            "inventoryId"} :
                                     LiteralSubstring(q, items[i][f])}

HighestNumber(store, u) ==
    LET numbers == {SeqNo(store[i].inventoryId) : i \in {j \in DOMAIN store : store[j].userId = u}}
    IN  IF numbers = {} THEN 0 ELSE CHOOSE n \in numbers : \A m \in numbers : m <= n

\* C19: for an owner whose highest sequence number n is 999 or more, the
\* allocator returns n + 1: after INV-999 comes INV-1000 and after INV-1000
\* comes INV-1001, the highest identifier being chosen by its number.
C19_NextAfterHighestNumber ==
    [][\A q \in BagToSet(reqs') :
          (/\ q.op = "post"
           /\ CopiesIn(q, reqs') > CopiesIn(q, reqs)
           /\ HighestNumber(items, q.caller) >= LastPadded)
          => SeqNo(q.inventoryId) = HighestNumber(items, q.caller) + 1]_vars

\* C20: lastUpdated is a reading of the clock taken by the request at
\* creation and at every successful update, whatever lastUpdated the body
\* carries, and the lastUpdated an item stores never decreases; a request
\* that fails leaves it as it was.
C20_LastUpdatedNeverDecreases ==
    [][/\ \A i \in DOMAIN items' \ DOMAIN items : items'[i].lastUpdated = now
       /\ \A i \in DOMAIN items \cap DOMAIN items' :
              /\ items'[i].lastUpdated >= items[i].lastUpdated
              /\ items'[i] # items[i] => items'[i].lastUpdated \in 0..now
              /\ last'.status \in {400, 403, 404} => items'[i] = items[i]]_vars

\* C21: the userId of a stored item is the caller that created it and no step
\* changes it: no update request changes the owner of an item, whatever its
\* body carries.
C21_OwnerNeverChanges ==
    [][/\ \A i \in DOMAIN items' \ DOMAIN items :
              \E q \in InFlight : /\ q.op = "post" /\ Completes(q)
                                  /\ items'[i].userId = q.caller
       /\ \A i \in DOMAIN items \cap DOMAIN items' :
              items'[i].userId = items[i].userId]_vars

\* C22: a success response to an update or a delete request is truthful: an
\* update answered 200 returns the item as it is stored after the update,
\* never an absent one, and a delete answered 200 has removed the item, so
\* that at most one delete request for an item is answered 200.
C22_SuccessIsTruthful ==
    [][\A q \in InFlight :
          Completes(q) /\ last'.status = 200 =>
              /\ q.op = "put" => /\ last'.data # <<>>
                                 /\ q.id \in DOMAIN items'
                                 /\ last'.data = <<items'[q.id]>>
              /\ q.op = "delete" => /\ q.id \in DOMAIN items
                                    /\ q.id \notin DOMAIN items']_vars

====
